---- MODULE Spec2Model ----
(***************************************************************************)
(* Model of the plugin SDK's rate limiters, cache, plugin base class,       *)
(* HTTP client and XPUB validator.                                         *)
(*                                                                         *)
(*   RateLimiter          helpers.js:245-288  (isAllowed with a prefix     *)
(*                        trim, getRemainingRequests)                      *)
(*   SecurityRateLimiter  helpers.js:481-514, the security utilities       *)
(*                        (isAllowed with a filter, reset)                 *)
(*   SimpleCache          helpers.js:293-340  (set, get, has, delete,      *)
(*                        clear, size)                                     *)
(*   PluginInterface      PluginInterface.js  (initialize, start, stop,    *)
(*                        cleanup, whose await lets other calls in)        *)
(*   createHttpClient     helpers.js:143-187  (the retry of the response   *)
(*                        interceptor)                                     *)
(*   validateXPUB         helpers.js:425-437, pattern at helpers.js:368    *)
(*                                                                         *)
(* Date.now() is the variable now; it is read by the operations and moved  *)
(* forward by Tick, so the clock is non-decreasing.  A Map is a function   *)
(* whose DOMAIN is the set of keys the Map holds.                          *)
(***************************************************************************)
EXTENDS Integers, Sequences, FiniteSets, TLC

\* ---------------------------------------------------------------- bounds
MaxTime == 4
MaxN == 2
MaxW == 2
MaxResets == 1
MaxTtl == 2
Keys == {"a", "b"}
Undefined == "undefined"
Values == {"v1", "v2", Undefined}
MaxCleanups == 1
MaxLate == 1
\* the calls of one method of a plugin that are suspended at an await at once
MaxPending == 1
Null == "null"

VARIABLES
  now,               \* the reading Date.now() gives
  maxRequests,       \* this.maxRequests (both limiters get the same policy)
  windowMs,          \* this.windowMs
  requests,          \* RateLimiter.requests: Map key -> array of timestamps
  securityRequests,  \* SecurityRateLimiter.requests
  admitted,          \* history: the timestamps RateLimiter.isAllowed admitted,
                     \*   those of the trailing window (now - windowMs, now]
  securityAdmitted,  \* history: the same for SecurityRateLimiter.isAllowed
  resets,            \* history: the number of reset calls made
  last,              \* the RateLimiter call that returned at this clock reading:
                     \*   its name, argument, the array it found and its return
                     \*   value; "none" once the clock moved
  securityLast,      \* the same for the SecurityRateLimiter
  cache,             \* SimpleCache.cache: Map key -> value
  ttls,              \* SimpleCache.ttls: Map key -> expiry timestamp
  defaultTtl,        \* SimpleCache.defaultTtl
  written,           \* history: for each key set and not deleted or cleared
                     \*   since, the value and the expiry now + ttl of its last
                     \*   set, and whether that set replaced a stored entry of
                     \*   another value whose expiry had passed
  cacheLast,         \* the SimpleCache call that returned at this clock reading:
                     \*   its name, argument, the keys the Maps held when it
                     \*   started and its return value; "none" once the clock moved
  isInitialized,     \* PluginInterface.isInitialized
  isRunning,         \* PluginInterface._isRunning
  startTime,         \* PluginInterface.startTime; null is NullTime
  context,           \* PluginInterface.context
  config,            \* PluginInterface.config
  jobQueue,          \* PluginInterface.jobQueue
  taskRunner,        \* PluginInterface.taskRunner
  cleanups,          \* the number of cleanup() calls suspended at
                     \*   "await this.stop()"
  pluginLast,        \* the PluginInterface call that returned last at this
                     \*   clock reading, its argument and its return value;
                     \*   "constructor" until the first call
  httpPc,            \* where the request made through the client stands:
                     \*   "idle", "inflight" (an attempt is out), "waiting"
                     \*   (in the setTimeout before a retry), "resolved",
                     \*   "rejected"
  retryCount,        \* config.retryCount; NoRetryCount while the property
                     \*   is not set
  delay,             \* the delay given to setTimeout, in ms
  elapsed,           \* the ms gone by since setTimeout was called
  attempts,          \* history: the number of attempts issued for the request
  failures,          \* history: error.response.status of each failed attempt,
                     \*   NoResponse for a network error
  delays,            \* history: the delay before each retry issued
  waits,             \* history: the ms that had gone by when it was issued
  xpub,              \* the argument given to validateXPUB
  xpubResult,        \* what validateXPUB returned, once it has
  kind,              \* the class of the plugin: "base" (PluginInterface),
                     \*   "private" or "public"
  price,             \* PrivatePluginInterface.price, PublicPluginInterface.price
  devMode,           \* NODE_ENV === 'development' ||
                     \*   PLUGIN_DEV_MODE === 'true'
  licenseStatus,     \* PrivatePluginInterface.licenseStatus
  licensing,         \* the initialize() calls suspended at
                     \*   "await this.validateLicense(...)"
  stops,             \* the stop() calls suspended at
                     \*   "await this.stopPlugin()"
  subclassLast       \* history: the hook the call that returned last
                     \*   invoked, and what the license server answered it

cacheVars == <<cache, ttls, defaultTtl, written, cacheLast>>

limiterVars == <<maxRequests, windowMs, requests, securityRequests,
                 admitted, securityAdmitted, resets, last, securityLast>>

pluginVars == <<isInitialized, isRunning, startTime, context, config,
                jobQueue, taskRunner, cleanups, pluginLast>>

\* the state of the components other than the limiters and the cache
httpVars == <<httpPc, retryCount, delay, elapsed, attempts, failures, delays, waits>>

xpubVars == <<xpub, xpubResult>>

subclassVars == <<kind, price, devMode, licenseStatus, licensing, stops,
                  subclassLast>>

restVars == <<pluginVars, httpVars, xpubVars, subclassVars>>

vars == <<now, maxRequests, windowMs, requests, securityRequests,
          admitted, securityAdmitted, resets, last, securityLast,
          cache, ttls, defaultTtl, written, cacheLast,
          isInitialized, isRunning, startTime, context, config,
          jobQueue, taskRunner, cleanups, pluginLast,
          httpPc, retryCount, delay, elapsed, attempts, failures, delays, waits,
          xpub, xpubResult,
          kind, price, devMode, licenseStatus, licensing, stops, subclassLast>>

\* ------------------------------------------------------- Map, array helpers
EmptyMap == [k \in {} |-> <<>>]

MapHas(m, k) == k \in DOMAIN m

MapSet(m, k, v) == [x \in (DOMAIN m) \cup {k} |-> IF x = k THEN v ELSE m[x]]

MapDelete(m, k) == [x \in (DOMAIN m) \ {k} |-> m[x]]

Max(a, b) == IF a >= b THEN a ELSE b

\* ------------------------------------------------- RateLimiter (helpers.js)
\* const windowStart = now - this.windowMs
WindowStart(t) == t - windowMs

\* a trim with the comparison turned round: it shifts what is still in the window
RECURSIVE ShiftOldInverted(_, _)
ShiftOldInverted(requestTimes, windowStart) ==
  IF Len(requestTimes) > 0 /\ Head(requestTimes) > windowStart
  THEN ShiftOldInverted(Tail(requestTimes), windowStart)
  ELSE requestTimes

\* while (requestTimes.length > 0 && requestTimes[0] < windowStart) requestTimes.shift()
RECURSIVE ShiftOld(_, _)
ShiftOld(requestTimes, windowStart) ==
  IF Len(requestTimes) > 0 /\ Head(requestTimes) < windowStart
  THEN ShiftOld(Tail(requestTimes), windowStart)
  ELSE requestTimes

\* the array isAllowed works on: the lazily created entry, then the trim
IsAllowedTrimmed(m, key, t) ==
  ShiftOld(IF MapHas(m, key) THEN m[key] ELSE <<>>, WindowStart(t))

\* a limit test that admits one request too many
IsAllowedReturnOffByOne(m, key, t) == Len(IsAllowedTrimmed(m, key, t)) <= maxRequests

\* if (requestTimes.length < this.maxRequests) ... return true ... return false
IsAllowedReturn(m, key, t) == Len(IsAllowedTrimmed(m, key, t)) < maxRequests

\* an isAllowed that admits without recording the admission
IsAllowedMapNoPush(m, key, t) == MapSet(m, key, IsAllowedTrimmed(m, key, t))

\* an isAllowed that records the attempt before the limit test
IsAllowedMapPushAlways(m, key, t) ==
  MapSet(m, key, Append(IsAllowedTrimmed(m, key, t), t))

\* an isAllowed that puts the admission at the front of the array
IsAllowedMapUnshift(m, key, t) ==
  LET requestTimes == IsAllowedTrimmed(m, key, t)
  IN  MapSet(m, key, IF IsAllowedReturn(m, key, t)
                     THEN <<t>> \o requestTimes
                     ELSE requestTimes)

\* the Map after isAllowed(key) at reading t: the trim is made in place, and
\* now is pushed when the request is admitted
IsAllowedMap(m, key, t) ==
  LET requestTimes == IsAllowedTrimmed(m, key, t)
  IN  MapSet(m, key, IF IsAllowedReturn(m, key, t)
                     THEN Append(requestTimes, t)
                     ELSE requestTimes)

\* the array the Map holds for a key, empty when it holds none
Before(m, key) == IF MapHas(m, key) THEN m[key] ELSE <<>>

RateLimiterIsAllowed(key) ==
  /\ requests' = IsAllowedMap(requests, key, now)
  /\ admitted' = IF IsAllowedReturn(requests, key, now)
                 THEN [admitted EXCEPT ![key] = Append(@, now)]
                 ELSE admitted
  /\ last' = [op |-> "isAllowed", key |-> key, before |-> Before(requests, key),
              ret |-> IsAllowedReturn(requests, key, now)]

IsAllowed(key) ==
  /\ RateLimiterIsAllowed(key)
  /\ UNCHANGED <<now, maxRequests, windowMs, securityRequests, securityAdmitted,
                 resets, securityLast>>
  /\ UNCHANGED cacheVars
  /\ UNCHANGED restVars

\* a filter that keeps the timestamp on the boundary of the window
ValidRequestsInclusive(requestTimes, windowStart) ==
  SelectSeq(requestTimes, LAMBDA time : time >= windowStart)

\* requestTimes.filter(time => time > windowStart)
ValidRequests(requestTimes, windowStart) ==
  SelectSeq(requestTimes, LAMBDA time : time > windowStart)

getRemainingRequests(m, key, t) ==
  IF ~MapHas(m, key)
  THEN maxRequests
  ELSE Max(0, maxRequests - Len(ValidRequests(m[key], WindowStart(t))))

\* a getRemainingRequests that stores the filtered array back
GetRemainingRequestsPersist(key) ==
  /\ requests' = IF MapHas(requests, key)
                 THEN MapSet(requests, key,
                             ValidRequests(requests[key], WindowStart(now)))
                 ELSE requests
  /\ last' = [op |-> "getRemainingRequests", key |-> key,
              before |-> Before(requests, key),
              ret |-> getRemainingRequests(requests, key, now)]
  /\ UNCHANGED <<now, maxRequests, windowMs, securityRequests,
                 admitted, securityAdmitted, resets, securityLast>>
  /\ UNCHANGED cacheVars
  /\ UNCHANGED restVars

GetRemainingRequests(key) ==
  /\ last' = [op |-> "getRemainingRequests", key |-> key,
              before |-> Before(requests, key),
              ret |-> getRemainingRequests(requests, key, now)]
  /\ UNCHANGED <<now, maxRequests, windowMs, requests, securityRequests,
                 admitted, securityAdmitted, resets, securityLast>>
  /\ UNCHANGED cacheVars
  /\ UNCHANGED restVars

\* ----------------------------------------- SecurityRateLimiter (security.js)
\* this.requests.get(identifier).filter(timestamp => timestamp > windowStart),
\* or the new empty array
SecurityClean(m, identifier, t) ==
  IF MapHas(m, identifier)
  THEN SelectSeq(m[identifier], LAMBDA timestamp : timestamp > WindowStart(t))
  ELSE <<>>

\* if (requests.length >= this.maxRequests) return false; ... return true
SecurityIsAllowedReturn(m, identifier, t) ==
  ~(Len(SecurityClean(m, identifier, t)) >= maxRequests)

\* the Map after isAllowed(identifier) at reading t
SecurityIsAllowedMap(m, identifier, t) ==
  LET reqs == SecurityClean(m, identifier, t)
  IN  MapSet(m, identifier, IF SecurityIsAllowedReturn(m, identifier, t)
                            THEN Append(reqs, t)
                            ELSE reqs)

SecurityRateLimiterIsAllowed(identifier) ==
  /\ securityRequests' = SecurityIsAllowedMap(securityRequests, identifier, now)
  /\ securityAdmitted' = IF SecurityIsAllowedReturn(securityRequests, identifier, now)
                         THEN [securityAdmitted EXCEPT ![identifier] = Append(@, now)]
                         ELSE securityAdmitted
  /\ securityLast' = [op |-> "isAllowed", key |-> identifier,
                      before |-> Before(securityRequests, identifier),
                      ret |-> SecurityIsAllowedReturn(securityRequests, identifier, now)]

SecurityIsAllowed(identifier) ==
  /\ SecurityRateLimiterIsAllowed(identifier)
  /\ UNCHANGED <<now, maxRequests, windowMs, requests, admitted, resets, last>>
  /\ UNCHANGED cacheVars
  /\ UNCHANGED restVars

\* one caller asking both limiters about the same key at the same reading
BothIsAllowed(key) ==
  /\ RateLimiterIsAllowed(key)
  /\ SecurityRateLimiterIsAllowed(key)
  /\ UNCHANGED <<now, maxRequests, windowMs, resets>>
  /\ UNCHANGED cacheVars
  /\ UNCHANGED restVars

\* a reset that clears the Map
ResetMapAll(m, identifier) == EmptyMap

\* a reset that leaves the Map as it is
ResetMapNothing(m, identifier) == m

\* this.requests.delete(identifier)
ResetMap(m, identifier) == MapDelete(m, identifier)

Reset(identifier) ==
  /\ resets < MaxResets
  /\ resets' = resets + 1
  /\ securityRequests' = ResetMap(securityRequests, identifier)
  /\ securityLast' = [op |-> "reset", key |-> identifier,
                      before |-> Before(securityRequests, identifier),
                      ret |-> "undefined"]
  /\ UNCHANGED <<now, maxRequests, windowMs, requests, admitted, securityAdmitted, last>>
  /\ UNCHANGED cacheVars
  /\ UNCHANGED restVars

\* ------------------------------------------------ SimpleCache (helpers.js)
NoCacheCall == [op |-> "none", key |-> "", before |-> {}, ret |-> Undefined]

\* the keys either Map holds
Stored(c, tt) == (DOMAIN c) \cup (DOMAIN tt)

\* set(key, value) at reading t finds an entry of another value, still stored
\* although its expiry has passed
ReplacesStale(c, tt, key, value, t) ==
  /\ MapHas(c, key) /\ c[key] /= value
  /\ MapHas(tt, key) /\ tt[key] < t

\* this.cache.set(key, value); this.ttls.set(key, Date.now() + ttl)
SetCache(c, key, value) == MapSet(c, key, value)

\* a set that stores the duration instead of the expiry
SetTtlsDuration(tt, key, ttl, t) == MapSet(tt, key, ttl)

\* a set that keeps the expiry of an entry it overwrites
SetTtlsKeep(tt, key, ttl, t) ==
  IF MapHas(tt, key) THEN tt ELSE MapSet(tt, key, t + ttl)

SetTtls(tt, key, ttl, t) == MapSet(tt, key, t + ttl)

Set(key, value, ttl) ==
  /\ cache' = SetCache(cache, key, value)
  /\ ttls' = SetTtls(ttls, key, ttl, now)
  /\ written' = MapSet(written, key,
                       [value |-> value, expires |-> now + ttl,
                        over |-> ReplacesStale(cache, ttls, key, value, now)])
  /\ cacheLast' = [op |-> "set", key |-> key, before |-> Stored(cache, ttls),
                   ret |-> Undefined]
  /\ UNCHANGED <<now, defaultTtl>>
  /\ UNCHANGED limiterVars
  /\ UNCHANGED restVars

\* set(key, value) with the third argument left out: ttl = this.defaultTtl
SetDefaultTtl(key, value) == Set(key, value, defaultTtl)

\* a get without the expiry test
GetEvictsNoExpiry(tt, key, t) ==
  \/ ~MapHas(tt, key)
  \/ tt[key] = 0

\* a get that evicts at the expiry itself
GetEvictsAtExpiry(tt, key, t) ==
  \/ ~MapHas(tt, key)
  \/ tt[key] = 0
  \/ t >= tt[key]

\* const ttl = this.ttls.get(key); !ttl || Date.now() > ttl
\* (!ttl holds of the undefined of a missing key and of the number 0)
GetEvicts(tt, key, t) ==
  \/ ~MapHas(tt, key)
  \/ tt[key] = 0
  \/ t > tt[key]

\* return undefined, or return this.cache.get(key)
GetReturn(c, tt, key, t) ==
  IF GetEvicts(tt, key, t)
  THEN Undefined
  ELSE IF MapHas(c, key) THEN c[key] ELSE Undefined

\* a get that leaves the value of an expired entry in the value Map
GetCacheKeep(c, tt, key, t) == c

\* this.cache.delete(key) when the test holds
GetCache(c, tt, key, t) ==
  IF GetEvicts(tt, key, t) THEN MapDelete(c, key) ELSE c

\* a get that renews the expiry of the entry it returns
GetTtlsRenew(tt, key, t) ==
  IF GetEvicts(tt, key, t) THEN MapDelete(tt, key) ELSE MapSet(tt, key, t + defaultTtl)

\* a get that drops every expired expiry, not only that of its key
GetTtlsSweep(tt, key, t) ==
  LET rest == IF GetEvicts(tt, key, t) THEN MapDelete(tt, key) ELSE tt
  IN  [k \in {j \in DOMAIN rest : ~(t > rest[j])} |-> rest[k]]

\* this.ttls.delete(key) when the test holds
GetTtls(tt, key, t) ==
  IF GetEvicts(tt, key, t) THEN MapDelete(tt, key) ELSE tt

Get(key) ==
  /\ cache' = GetCache(cache, ttls, key, now)
  /\ ttls' = GetTtls(ttls, key, now)
  /\ cacheLast' = [op |-> "get", key |-> key, before |-> Stored(cache, ttls),
                   ret |-> GetReturn(cache, ttls, key, now)]
  /\ UNCHANGED <<now, defaultTtl, written>>
  /\ UNCHANGED limiterVars
  /\ UNCHANGED restVars

\* return this.get(key) !== undefined
HasReturn(c, tt, key, t) == GetReturn(c, tt, key, t) /= Undefined

\* a has that only asks the value Map for the key
HasKeyExists(key) ==
  /\ cacheLast' = [op |-> "has", key |-> key, before |-> Stored(cache, ttls),
                   ret |-> MapHas(cache, key)]
  /\ UNCHANGED <<now, defaultTtl, written, cache, ttls>>
  /\ UNCHANGED limiterVars
  /\ UNCHANGED restVars

Has(key) ==
  /\ cache' = GetCache(cache, ttls, key, now)
  /\ ttls' = GetTtls(ttls, key, now)
  /\ cacheLast' = [op |-> "has", key |-> key, before |-> Stored(cache, ttls),
                   ret |-> HasReturn(cache, ttls, key, now)]
  /\ UNCHANGED <<now, defaultTtl, written>>
  /\ UNCHANGED limiterVars
  /\ UNCHANGED restVars

\* this.cache.delete(key); this.ttls.delete(key)
\* a delete that forgets the value Map
DeleteCacheNothing(c, key) == c

DeleteCache(c, key) == MapDelete(c, key)

\* a delete that forgets the expiry Map
DeleteTtlsNothing(tt, key) == tt

DeleteTtls(tt, key) == MapDelete(tt, key)

Delete(key) ==
  /\ cache' = DeleteCache(cache, key)
  /\ ttls' = DeleteTtls(ttls, key)
  /\ written' = MapDelete(written, key)
  /\ cacheLast' = [op |-> "delete", key |-> key, before |-> Stored(cache, ttls),
                   ret |-> Undefined]
  /\ UNCHANGED <<now, defaultTtl>>
  /\ UNCHANGED limiterVars
  /\ UNCHANGED restVars

\* this.cache.clear(); this.ttls.clear()
Clear ==
  /\ cache' = EmptyMap
  /\ ttls' = EmptyMap
  /\ written' = EmptyMap
  /\ cacheLast' = [op |-> "clear", key |-> "", before |-> Stored(cache, ttls),
                   ret |-> Undefined]
  /\ UNCHANGED <<now, defaultTtl>>
  /\ UNCHANGED limiterVars
  /\ UNCHANGED restVars

\* a sweep that takes the entries expiring at this reading too
SizeExpiredAtExpiry(tt, t) == {key \in DOMAIN tt : t >= tt[key]}

\* the keys the loop of size() deletes: for (const [key, ttl] of this.ttls.entries())
\* if (now > ttl)
SizeExpired(tt, t) == {key \in DOMAIN tt : t > tt[key]}

SizeCache(c, tt, t) == [key \in (DOMAIN c) \ SizeExpired(tt, t) |-> c[key]]

SizeTtls(tt, t) == [key \in (DOMAIN tt) \ SizeExpired(tt, t) |-> tt[key]]

\* return this.cache.size
SizeReturn(c, tt, t) == Cardinality(DOMAIN SizeCache(c, tt, t))

Size ==
  /\ cache' = SizeCache(cache, ttls, now)
  /\ ttls' = SizeTtls(ttls, now)
  /\ cacheLast' = [op |-> "size", key |-> "", before |-> Stored(cache, ttls),
                   ret |-> SizeReturn(cache, ttls, now)]
  /\ UNCHANGED <<now, defaultTtl, written>>
  /\ UNCHANGED limiterVars
  /\ UNCHANGED restVars

\* new SimpleCache(defaultTtl)
SimpleCacheNew(ttl) ==
  /\ cache = EmptyMap
  /\ ttls = EmptyMap
  /\ defaultTtl = ttl
  /\ written = EmptyMap
  /\ cacheLast = NoCacheCall


\* ------------------------------------------ PluginInterface (PluginInterface.js)
\* null in startTime: "this.startTime ?" takes null and 0 alike, and Date.now()
\* gives neither
NullTime == 0

\* a || b
Or(a, b) == IF a \in {Undefined, Null} THEN b ELSE a

\* getDefaultConfig() { return {}; }
getDefaultConfig == "{}"

\* the argument of initialize: null, or an object with or without config,
\* jobQueue, taskRunner and licenseKey (which PluginInterface does not read)
NullContext ==
  [object |-> FALSE, config |-> Undefined, jobQueue |-> Undefined,
   taskRunner |-> Undefined, licenseKey |-> Undefined]

Contexts ==
  {NullContext} \cup
  [object : {TRUE}, config : {Undefined, Null, "config"},
   jobQueue : {Undefined, "jobQueue"}, taskRunner : {Undefined, "taskRunner"},
   licenseKey : {Undefined}]

NoPluginCall == [op |-> "none", arg |-> NullContext, ret |-> FALSE]

\* constructor()
PluginInterfaceNew ==
  /\ isInitialized = FALSE
  /\ isRunning = FALSE
  /\ startTime = NullTime
  /\ context = NullContext
  /\ config = Null
  /\ jobQueue = Undefined
  /\ taskRunner = Undefined
  /\ cleanups = 0
  /\ pluginLast = [op |-> "constructor", arg |-> NullContext, ret |-> FALSE]

\* an initialize that ignores the config of the context
InitializeConfigDefault(ctx) == getDefaultConfig

\* this.config = context.config || this.getDefaultConfig()
InitializeConfig(ctx) == Or(ctx.config, getDefaultConfig)

\* async initialize(context): reading context.config of null throws after
\* this.context is assigned, and the catch returns false
Initialize(ctx) ==
  /\ context' = ctx
  /\ IF ctx.object
       THEN /\ config' = InitializeConfig(ctx)
            /\ jobQueue' = Or(ctx.jobQueue, Null)
            /\ taskRunner' = Or(ctx.taskRunner, Null)
            /\ isInitialized' = TRUE
       ELSE UNCHANGED <<config, jobQueue, taskRunner, isInitialized>>
  /\ pluginLast' = [op |-> "initialize", arg |-> ctx, ret |-> ctx.object]
  /\ UNCHANGED <<now, isRunning, startTime, cleanups>>
  /\ UNCHANGED <<limiterVars, cacheVars, httpVars, xpubVars, subclassVars>>

\* start() that starts a plugin whatever its state
StartThrowsNever(initialized) == FALSE

\* if (!this.isInitialized) throw
StartThrows(initialized) == ~initialized

\* async start()
Start ==
  /\ IF StartThrows(isInitialized)
       THEN UNCHANGED <<isRunning, startTime>>
       ELSE /\ isRunning' = TRUE
            /\ startTime' = now
  /\ pluginLast' = [op |-> "start", arg |-> NullContext,
                    ret |-> ~StartThrows(isInitialized)]
  /\ UNCHANGED <<now, isInitialized, context, config, jobQueue, taskRunner, cleanups>>
  /\ UNCHANGED <<limiterVars, cacheVars, httpVars, xpubVars, subclassVars>>

\* async stop()
Stop ==
  /\ isRunning' = FALSE
  /\ startTime' = NullTime
  /\ pluginLast' = [op |-> "stop", arg |-> NullContext, ret |-> TRUE]
  /\ UNCHANGED <<now, isInitialized, context, config, jobQueue, taskRunner, cleanups>>
  /\ UNCHANGED <<limiterVars, cacheVars, httpVars, xpubVars, subclassVars>>

\* async cleanup(), up to "await this.stop()": stop() has run and returned its
\* promise, and the rest of cleanup waits in the microtask queue
CleanupAwaitStop ==
  /\ cleanups < MaxCleanups
  /\ isRunning' = FALSE
  /\ startTime' = NullTime
  /\ cleanups' = cleanups + 1
  /\ pluginLast' = [op |-> "stop", arg |-> NullContext, ret |-> TRUE]
  /\ UNCHANGED <<now, isInitialized, context, config, jobQueue, taskRunner>>
  /\ UNCHANGED <<limiterVars, cacheVars, httpVars, xpubVars, subclassVars>>

\* cleanup() after the await
CleanupResume ==
  /\ cleanups > 0
  /\ isInitialized' = FALSE
  /\ context' = NullContext
  /\ config' = Null
  /\ cleanups' = cleanups - 1
  /\ pluginLast' = [op |-> "cleanup", arg |-> NullContext, ret |-> TRUE]
  /\ UNCHANGED <<now, isRunning, startTime, jobQueue, taskRunner>>
  /\ UNCHANGED <<limiterVars, cacheVars, httpVars, xpubVars, subclassVars>>

\* isRunning()
IsRunning == isRunning

\* getUptime()
getUptime == IF startTime /= NullTime THEN now - startTime ELSE 0


\* ------------- PrivatePluginInterface, PublicPluginInterface (the subclasses)
\* this.price = 49 of examples/example-plugin.js
PaidPrice == 49

Prices == {0, PaidPrice}

\* the arguments of a subclass's initialize: null, or an object with or
\* without a license key
SubclassContexts ==
  {NullContext} \cup
  [object : {TRUE}, config : {Undefined}, jobQueue : {Undefined},
   taskRunner : {Undefined}, licenseKey : {Undefined, "LICENSE-KEY"}]

\* what validateWithLicenseServer comes to: the object of the method as it
\* stands says valid: true, the one of a subclass that overrides the method
\* may say valid: false, and the request may throw
ServerAnswers == {"valid", "invalid", "throws"}

\* validateLicense asks the license server only outside development mode
\* and for a key
ServerAsked(licenseKey) == ~devMode /\ licenseKey \notin {Undefined, Null, ""}

NoSubclassCall == [hook |-> "none", server |-> "none", first |-> FALSE]

\* the record of a call that returns: the hook it invoked, what the license
\* server answered it, and whether it is the first call to return
SubclassCall(hook, server) ==
  [hook |-> hook, server |-> server, first |-> pluginLast.op = "constructor"]

\* no subclass constructed
SubclassIdle ==
  /\ kind = "base"
  /\ price = 0
  /\ devMode = FALSE
  /\ licenseStatus = Undefined
  /\ licensing = <<>>
  /\ stops = <<>>
  /\ subclassLast = NoSubclassCall

\* constructor() of PrivatePluginInterface; a subclass assigns its price in
\* its own constructor
PrivatePluginInterfaceNew ==
  /\ kind = "private"
  /\ price \in Prices
  /\ devMode \in BOOLEAN
  /\ licenseStatus = "unlicensed"
  /\ licensing = <<>>
  /\ stops = <<>>
  /\ subclassLast = NoSubclassCall

\* constructor() of PublicPluginInterface: it has no licenseStatus
PublicPluginInterfaceNew ==
  /\ kind = "public"
  /\ price = 0
  /\ devMode = FALSE
  /\ licenseStatus = Undefined
  /\ licensing = <<>>
  /\ stops = <<>>
  /\ subclassLast = NoSubclassCall

\* !licenseKey
NoLicenseKey(licenseKey) == licenseKey \in {Undefined, Null, ""}

\* validateLicense that takes every key, and none, for a valid one
validateLicenseAlways(licenseKey, server) == TRUE

\* async validateLicense(licenseKey), given what the license server answers
validateLicense(licenseKey, server) ==
  IF devMode THEN TRUE
  ELSE IF NoLicenseKey(licenseKey) /\ price = 0 THEN TRUE
  ELSE IF NoLicenseKey(licenseKey) THEN FALSE
  ELSE server = "valid"

\* initialize that goes on without a valid license
LicenseRequiredNever(licenseValid) == FALSE

\* if (!licenseValid && this.price > 0) throw
LicenseRequired(licenseValid) == ~licenseValid /\ price > 0

\* the sequence without its i-th entry
Resumed(calls, i) == SubSeq(calls, 1, i - 1) \o SubSeq(calls, i + 1, Len(calls))

\* PrivatePluginInterface.initialize(context), up to
\* "await this.validateLicense(context.licenseKey)"; reading licenseKey of
\* null throws, and the catch returns false
PrivateInitializeAwaitLicense(ctx, server) ==
  /\ kind = "private"
  /\ IF ctx.object
       THEN /\ Len(licensing) < MaxPending
            /\ licensing' = Append(licensing,
                 [arg |-> ctx,
                  server |-> IF ServerAsked(ctx.licenseKey) THEN server
                                                            ELSE "none",
                  licenseValid |-> validateLicense(ctx.licenseKey, server)])
            /\ UNCHANGED <<pluginLast, subclassLast>>
       ELSE /\ pluginLast' = [op |-> "initialize", arg |-> ctx, ret |-> FALSE]
            /\ subclassLast' = SubclassCall("none", "none")
            /\ UNCHANGED licensing
  /\ UNCHANGED <<now, isInitialized, isRunning, startTime, context, config,
                 jobQueue, taskRunner, cleanups>>
  /\ UNCHANGED <<kind, price, devMode, licenseStatus, stops>>
  /\ UNCHANGED <<limiterVars, cacheVars, httpVars, xpubVars>>

\* PrivatePluginInterface.initialize(context) after the await: the throw of a
\* plugin without a license, or the assignments, super.initialize(context)
\* and the initializePlugin hook, which throws or does not
PrivateInitializeResume(i, throws) ==
  /\ kind = "private"
  /\ i \in 1..Len(licensing)
  /\ licensing' = Resumed(licensing, i)
  /\ LET call == licensing[i]
     IN  IF LicenseRequired(call.licenseValid)
           THEN /\ pluginLast' = [op |-> "initialize", arg |-> call.arg,
                                  ret |-> FALSE]
                /\ subclassLast' = SubclassCall("none", call.server)
                /\ UNCHANGED <<isInitialized, context, config, jobQueue,
                               taskRunner, licenseStatus>>
           ELSE /\ context' = call.arg
                /\ licenseStatus' = IF call.licenseValid THEN "licensed"
                                                         ELSE "unlicensed"
                /\ config' = InitializeConfig(call.arg)
                /\ jobQueue' = Or(call.arg.jobQueue, Null)
                /\ taskRunner' = Or(call.arg.taskRunner, Null)
                /\ isInitialized' = TRUE
                /\ pluginLast' = [op |-> "initialize", arg |-> call.arg,
                                  ret |-> ~throws]
                /\ subclassLast' = SubclassCall("initializePlugin", call.server)
  /\ UNCHANGED <<now, isRunning, startTime, cleanups>>
  /\ UNCHANGED <<kind, price, devMode, stops>>
  /\ UNCHANGED <<limiterVars, cacheVars, httpVars, xpubVars>>

\* PublicPluginInterface.initialize(context): super.initialize(context) of a
\* null context returns false, and the hook is not called
PublicInitialize(ctx, throws) ==
  /\ kind = "public"
  /\ context' = ctx
  /\ IF ctx.object
       THEN /\ config' = InitializeConfig(ctx)
            /\ jobQueue' = Or(ctx.jobQueue, Null)
            /\ taskRunner' = Or(ctx.taskRunner, Null)
            /\ isInitialized' = TRUE
            /\ pluginLast' = [op |-> "initialize", arg |-> ctx, ret |-> ~throws]
            /\ subclassLast' = SubclassCall("initializePlugin", "none")
       ELSE /\ pluginLast' = [op |-> "initialize", arg |-> ctx, ret |-> FALSE]
            /\ subclassLast' = SubclassCall("none", "none")
            /\ UNCHANGED <<config, jobQueue, taskRunner, isInitialized>>
  /\ UNCHANGED <<now, isRunning, startTime, cleanups>>
  /\ UNCHANGED <<kind, price, devMode, licenseStatus, licensing, stops>>
  /\ UNCHANGED <<limiterVars, cacheVars, httpVars, xpubVars>>

\* if (this.price > 0 && this.licenseStatus !== 'licensed') throw
StartLicenseRequired(status) == price > 0 /\ status /= "licensed"

\* the body the two start() share: the throw that the license or the false
\* of super.start() brings, or super.start() and the startPlugin hook, which
\* throws or does not; the catch returns false
SubclassStart(unlicensed, throws) ==
  /\ IF unlicensed \/ StartThrows(isInitialized)
       THEN /\ pluginLast' = [op |-> "start", arg |-> NullContext, ret |-> FALSE]
            /\ subclassLast' = SubclassCall("none", "none")
            /\ UNCHANGED <<isRunning, startTime>>
       ELSE /\ isRunning' = TRUE
            /\ startTime' = now
            /\ pluginLast' = [op |-> "start", arg |-> NullContext,
                              ret |-> ~throws]
            /\ subclassLast' = SubclassCall("startPlugin", "none")
  /\ UNCHANGED <<now, isInitialized, context, config, jobQueue, taskRunner,
                 cleanups>>
  /\ UNCHANGED <<kind, price, devMode, licenseStatus, licensing, stops>>
  /\ UNCHANGED <<limiterVars, cacheVars, httpVars, xpubVars>>

\* PrivatePluginInterface.start()
PrivateStart(throws) ==
  /\ kind = "private"
  /\ SubclassStart(StartLicenseRequired(licenseStatus), throws)

\* PublicPluginInterface.start()
PublicStart(throws) ==
  /\ kind = "public"
  /\ SubclassStart(FALSE, throws)

\* the cleanup() calls among the suspended stop() calls
CleanupStops == Len(SelectSeq(stops, LAMBDA call : call.cleanup))

\* stop() of the two subclasses, up to "await this.stopPlugin()": the hook
\* has been called, and it throws or does not
SubclassStopAwaitHook(throws) ==
  /\ kind \in {"private", "public"}
  /\ Len(stops) < MaxPending
  /\ stops' = Append(stops, [throws |-> throws, cleanup |-> FALSE])
  /\ UNCHANGED pluginVars
  /\ UNCHANGED <<kind, price, devMode, licenseStatus, licensing, subclassLast>>
  /\ UNCHANGED <<now, limiterVars, cacheVars, httpVars, xpubVars>>

\* the inherited cleanup(), up to "await this.stop()": stop() of the subclass
\* has called its hook and waits for it
SubclassCleanupAwaitStop(throws) ==
  /\ kind \in {"private", "public"}
  /\ Len(stops) < MaxPending
  /\ cleanups + CleanupStops < MaxCleanups
  /\ stops' = Append(stops, [throws |-> throws, cleanup |-> TRUE])
  /\ UNCHANGED pluginVars
  /\ UNCHANGED <<kind, price, devMode, licenseStatus, licensing, subclassLast>>
  /\ UNCHANGED <<now, limiterVars, cacheVars, httpVars, xpubVars>>

\* stop() of the two subclasses after the await: the catch returns false when
\* the hook threw, else super.stop() runs; a cleanup() that awaited this
\* stop() is next to resume
SubclassStopResume(i) ==
  /\ kind \in {"private", "public"}
  /\ i \in 1..Len(stops)
  /\ stops' = Resumed(stops, i)
  /\ IF stops[i].throws
       THEN UNCHANGED <<isRunning, startTime>>
       ELSE /\ isRunning' = FALSE
            /\ startTime' = NullTime
  /\ cleanups' = IF stops[i].cleanup THEN cleanups + 1 ELSE cleanups
  /\ pluginLast' = [op |-> "stop", arg |-> NullContext,
                    ret |-> ~stops[i].throws]
  /\ subclassLast' = SubclassCall("stopPlugin", "none")
  /\ UNCHANGED <<now, isInitialized, context, config, jobQueue, taskRunner>>
  /\ UNCHANGED <<kind, price, devMode, licenseStatus, licensing>>
  /\ UNCHANGED <<limiterVars, cacheVars, httpVars, xpubVars>>


\* -------------------------------------------- createHttpClient (helpers.js)
\* error.response of a network error: there is none
NoResponse == 0

\* config.retryCount of a request the interceptor has not seen
NoRetryCount == -1

\* the ms between two looks at the timer
TimerStep == 1000

\* the status of a response axios rejects (validateStatus: outside 2xx)
Statuses == {400, 404, 499, 500, 503}

Responses == {NoResponse} \cup Statuses

RECURSIVE Pow(_, _)
\* Math.pow(base, exponent)
Pow(base, exponent) == IF exponent = 0 THEN 1 ELSE base * Pow(base, exponent - 1)

\* if (!config.retryCount) config.retryCount = 0
RetryCountSet(count) == IF count \in {NoRetryCount, 0} THEN 0 ELSE count

\* a retry rule without the limit on the count
ShouldRetryUnbounded(count, response) ==
  response = NoResponse \/ response >= 500

\* a retry rule that retries every failure
ShouldRetryAnyFailure(count, response) == count < 3

\* config.retryCount < 3 && (!error.response || error.response.status >= 500)
shouldRetry(count, response) ==
  /\ count < 3
  /\ (response = NoResponse \/ response >= 500)

\* a delay counted from the retries made so far
RetryDelayFromZero(count) == Pow(2, count - 1) * 1000

\* Math.pow(2, config.retryCount) * 1000, config.retryCount incremented already
RetryDelay(count) == Pow(2, count) * 1000

\* createHttpClient(), no request made
HttpClientNew ==
  /\ httpPc = "idle"
  /\ retryCount = NoRetryCount
  /\ delay = 0
  /\ elapsed = 0
  /\ attempts = 0
  /\ failures = <<>>
  /\ delays = <<>>
  /\ waits = <<>>

\* client(config) by the caller, with a config that has no retryCount; a
\* request is made once the one before has settled
HttpRequest ==
  /\ httpPc \in {"idle", "resolved", "rejected"}
  /\ httpPc' = "inflight"
  /\ retryCount' = NoRetryCount
  /\ delay' = 0
  /\ elapsed' = 0
  /\ attempts' = 1
  /\ failures' = <<>>
  /\ delays' = <<>>
  /\ waits' = <<>>
  /\ UNCHANGED <<now, limiterVars, cacheVars, pluginVars, xpubVars,
               subclassVars>>

\* (response) => response
HttpResponse ==
  /\ httpPc = "inflight"
  /\ httpPc' = "resolved"
  /\ UNCHANGED <<retryCount, delay, elapsed, attempts, failures, delays, waits>>
  /\ UNCHANGED <<now, limiterVars, cacheVars, pluginVars, xpubVars,
               subclassVars>>

\* async (error) => ..., up to the await of the setTimeout promise or to
\* Promise.reject(error)
HttpError(response) ==
  /\ httpPc = "inflight"
  /\ failures' = Append(failures, response)
  /\ IF shouldRetry(RetryCountSet(retryCount), response)
       THEN /\ retryCount' = RetryCountSet(retryCount) + 1
            /\ delay' = RetryDelay(RetryCountSet(retryCount) + 1)
            /\ elapsed' = 0
            /\ httpPc' = "waiting"
       ELSE /\ retryCount' = RetryCountSet(retryCount)
            /\ httpPc' = "rejected"
            /\ UNCHANGED <<delay, elapsed>>
  /\ UNCHANGED <<attempts, delays, waits>>
  /\ UNCHANGED <<now, limiterVars, cacheVars, pluginVars, xpubVars,
               subclassVars>>

\* time goes by while the timer is armed; the timer fires at its delay or up
\* to MaxLate looks later
HttpElapse ==
  /\ httpPc = "waiting"
  /\ elapsed < delay + MaxLate * TimerStep
  /\ elapsed' = elapsed + TimerStep
  /\ UNCHANGED <<httpPc, retryCount, delay, attempts, failures, delays, waits>>
  /\ UNCHANGED <<now, limiterVars, cacheVars, pluginVars, xpubVars,
               subclassVars>>

\* setTimeout(resolve, delay): not before delay ms have gone by
TimerDue(ms, d) == ms >= d

\* the timer fires, the await ends: return client(config)
HttpRetry ==
  /\ httpPc = "waiting"
  /\ TimerDue(elapsed, delay)
  /\ httpPc' = "inflight"
  /\ attempts' = attempts + 1
  /\ delays' = Append(delays, delay)
  /\ waits' = Append(waits, elapsed)
  /\ UNCHANGED <<retryCount, delay, elapsed, failures>>
  /\ UNCHANGED <<now, limiterVars, cacheVars, pluginVars, xpubVars,
               subclassVars>>


\* ------------------------------------------------ validateXPUB (helpers.js)
\* (xpub|ypub|zpub|tpub|upub|vpub)
XpubPrefixes == {"xpub", "ypub", "zpub", "tpub", "upub", "vpub"}

\* {100,120}
XpubMinBody == 100
XpubMaxBody == 120

\* the lengths of the part after the first four characters: that of the key of
\* tests/basic.test.js and README.md, that of a BIP32 key, and those at the
\* ends of the range the pattern takes
BodyLengths == {0, 1, 50, 99, 100, 107, 120, 121}

\* an argument: undefined, a number, or a string given by its whitespace at
\* the ends, its first four characters, the number of characters after them
\* and whether these are all of [a-zA-Z0-9]
UndefinedXpub ==
  [type |-> "undefined", pad |-> FALSE, prefix |-> "", body |-> 0, alnum |-> TRUE]

NumberXpub ==
  [type |-> "number", pad |-> FALSE, prefix |-> "", body |-> 0, alnum |-> TRUE]

EmptyXpub ==
  [type |-> "string", pad |-> FALSE, prefix |-> "", body |-> 0, alnum |-> TRUE]

\* 'xpub661MyMwAqRbcFtXgS5sYJABqqG9YLmC4Q1Rdap9gSE3Nbx2MNA'
TestXpub ==
  [type |-> "string", pad |-> FALSE, prefix |-> "xpub", body |-> 50, alnum |-> TRUE]

XpubArguments ==
  {UndefinedXpub, NumberXpub, EmptyXpub} \cup
  [type : {"string"}, pad : BOOLEAN, prefix : XpubPrefixes \cup {"xprv"},
   body : BodyLengths, alnum : BOOLEAN]

\* !xpub
XpubFalsy(x) == x.type = "undefined" \/ x = EmptyXpub

\* xpub.trim()
Trim(x) == [x EXCEPT !.pad = FALSE]

\* VALIDATION_PATTERNS.xpub.test:
\* /^(xpub|ypub|zpub|tpub|upub|vpub)[a-zA-Z0-9]{100,120}$/
XpubPattern(x) ==
  /\ ~x.pad
  /\ x.prefix \in XpubPrefixes
  /\ x.alnum
  /\ x.body >= XpubMinBody
  /\ x.body <= XpubMaxBody

validateXPUB(x) ==
  IF XpubFalsy(x) \/ x.type /= "string"
    THEN [called |-> TRUE, valid |-> FALSE, message |-> "XPUB is required"]
  ELSE IF ~XpubPattern(Trim(x))
    THEN [called |-> TRUE, valid |-> FALSE, message |-> "Invalid XPUB format"]
  ELSE [called |-> TRUE, valid |-> TRUE, message |-> "XPUB is valid"]

NoXpubResult == [called |-> FALSE, valid |-> FALSE, message |-> ""]

\* no call of validateXPUB made
XpubIdle ==
  /\ xpub = UndefinedXpub
  /\ xpubResult = NoXpubResult

\* const result = validateXPUB(xpub)
ValidateXPUB ==
  /\ ~xpubResult.called
  /\ xpubResult' = validateXPUB(xpub)
  /\ UNCHANGED <<now, xpub, limiterVars, cacheVars, pluginVars, httpVars,
                 subclassVars>>

\* ------------------------------------------------------------------ clock
NoCall == [op |-> "none", key |-> "", before |-> <<>>, ret |-> "undefined"]

InWindow(timestamps, t) ==
  SelectSeq(timestamps, LAMBDA time : time > t - windowMs)

Tick ==
  /\ now < MaxTime
  /\ now' = now + 1
  /\ admitted' = [k \in Keys |-> InWindow(admitted[k], now + 1)]
  /\ securityAdmitted' = [k \in Keys |-> InWindow(securityAdmitted[k], now + 1)]
  /\ last' = NoCall
  /\ securityLast' = NoCall
  /\ cacheLast' = NoCacheCall
  /\ pluginLast' = IF pluginLast.op = "constructor" THEN pluginLast ELSE NoPluginCall
  /\ UNCHANGED <<maxRequests, windowMs, requests, securityRequests, resets>>
  /\ UNCHANGED <<cache, ttls, defaultTtl, written>>
  /\ UNCHANGED <<isInitialized, isRunning, startTime, context, config,
                 jobQueue, taskRunner, cleanups>>
  /\ UNCHANGED <<httpVars, xpubVars, subclassVars>>

\* ------------------------------------------------------- specifications
Init ==
  /\ now = 0
  /\ maxRequests \in 1..MaxN
  /\ windowMs \in 1..MaxW
  /\ requests = EmptyMap
  /\ securityRequests = EmptyMap
  /\ admitted = [k \in Keys |-> <<>>]
  /\ securityAdmitted = [k \in Keys |-> <<>>]
  /\ resets = 0
  /\ last = NoCall
  /\ securityLast = NoCall
  /\ SimpleCacheNew(MaxTtl)
  /\ PluginInterfaceNew
  /\ HttpClientNew
  /\ XpubIdle
  /\ SubclassIdle

\* the limiter exported as RateLimiter
Next ==
  \/ Tick
  \/ \E key \in Keys : IsAllowed(key)
  \/ \E key \in Keys : GetRemainingRequests(key)

Spec == Init /\ [][Next]_vars

\* the limiter exported as SecurityRateLimiter
NextSecurity ==
  \/ Tick
  \/ \E identifier \in Keys : SecurityIsAllowed(identifier)
  \/ \E identifier \in Keys : Reset(identifier)

SpecSecurity == Init /\ [][NextSecurity]_vars

\* both limiters with the same policy, given the same isAllowed calls at the
\* same readings
NextIsAllowed ==
  \/ Tick
  \/ \E key \in Keys : BothIsAllowed(key)

SpecIsAllowed == Init /\ [][NextIsAllowed]_vars

\* both limiters with the same policy: the isAllowed calls made on both, and
\* the calls only one of them has
NextLimiters ==
  \/ Tick
  \/ \E key \in Keys : BothIsAllowed(key)
  \/ \E key \in Keys : GetRemainingRequests(key)
  \/ \E identifier \in Keys : Reset(identifier)

\* one request per window, the window the longest of the bounds
InitLimiters ==
  /\ Init
  /\ maxRequests = 1
  /\ windowMs = MaxW

SpecLimiters == InitLimiters /\ [][NextLimiters]_vars

\* the cache: the clock reads a positive number of milliseconds since the
\* epoch, and no limiter is called
InitCache ==
  /\ now = 1
  /\ maxRequests = 1
  /\ windowMs = 1
  /\ requests = EmptyMap
  /\ securityRequests = EmptyMap
  /\ admitted = [k \in Keys |-> <<>>]
  /\ securityAdmitted = [k \in Keys |-> <<>>]
  /\ resets = 0
  /\ last = NoCall
  /\ securityLast = NoCall
  /\ \E ttl \in {0, MaxTtl} : SimpleCacheNew(ttl)
  /\ PluginInterfaceNew
  /\ HttpClientNew
  /\ XpubIdle
  /\ SubclassIdle

NextCache ==
  \/ Tick
  \/ \E key \in Keys, value \in Values, ttl \in 0..MaxTtl : Set(key, value, ttl)
  \/ \E key \in Keys, value \in Values : SetDefaultTtl(key, value)
  \/ \E key \in Keys : Get(key)
  \/ \E key \in Keys : Has(key)
  \/ \E key \in Keys : Delete(key)
  \/ Clear
  \/ Size

SpecCache == InitCache /\ [][NextCache]_vars

\* the limiters and the cache as constructed, with the clock at a positive
\* reading
InitIdle ==
  /\ now = 1
  /\ maxRequests = 1
  /\ windowMs = 1
  /\ requests = EmptyMap
  /\ securityRequests = EmptyMap
  /\ admitted = [k \in Keys |-> <<>>]
  /\ securityAdmitted = [k \in Keys |-> <<>>]
  /\ resets = 0
  /\ last = NoCall
  /\ securityLast = NoCall
  /\ SimpleCacheNew(MaxTtl)

\* a plugin whose methods the host calls without awaiting one before the next
InitPlugin ==
  /\ InitIdle
  /\ PluginInterfaceNew
  /\ HttpClientNew
  /\ XpubIdle
  /\ SubclassIdle

NextPlugin ==
  \/ Tick
  \/ \E ctx \in Contexts : Initialize(ctx)
  \/ Start
  \/ Stop
  \/ CleanupAwaitStop
  \/ CleanupResume

SpecPlugin == InitPlugin /\ [][NextPlugin]_vars

\* one client, one request at a time
InitHttp ==
  /\ InitIdle
  /\ PluginInterfaceNew
  /\ HttpClientNew
  /\ XpubIdle
  /\ SubclassIdle

NextHttp ==
  \/ HttpRequest
  \/ HttpResponse
  \/ \E response \in Responses : HttpError(response)
  \/ HttpElapse
  \/ HttpRetry

SpecHttp == InitHttp /\ [][NextHttp]_vars

\* validateXPUB called once on each argument
InitXpub ==
  /\ InitIdle
  /\ PluginInterfaceNew
  /\ HttpClientNew
  /\ xpub \in XpubArguments
  /\ xpubResult = NoXpubResult
  /\ SubclassIdle

NextXpub == ValidateXPUB

SpecXpub == InitXpub /\ [][NextXpub]_vars

\* a plugin of one of the two subclasses, whose methods the host calls
\* without awaiting one before the next, and whose hooks throw or do not,
\* at one reading of the clock
InitSubclass ==
  /\ InitIdle
  /\ PluginInterfaceNew
  /\ HttpClientNew
  /\ XpubIdle
  /\ PrivatePluginInterfaceNew \/ PublicPluginInterfaceNew

NextSubclass ==
  \/ \E ctx \in SubclassContexts, server \in ServerAnswers :
       PrivateInitializeAwaitLicense(ctx, server)
  \/ \E i \in 1..MaxPending + 1, throws \in BOOLEAN :
       PrivateInitializeResume(i, throws)
  \/ \E ctx \in SubclassContexts, throws \in BOOLEAN : PublicInitialize(ctx, throws)
  \/ \E throws \in BOOLEAN : PrivateStart(throws)
  \/ \E throws \in BOOLEAN : PublicStart(throws)
  \/ \E throws \in BOOLEAN : SubclassStopAwaitHook(throws)
  \/ \E throws \in BOOLEAN : SubclassCleanupAwaitStop(throws)
  \/ \E i \in 1..MaxPending + 1 : SubclassStopResume(i)
  \/ CleanupResume

SpecSubclass == InitSubclass /\ [][NextSubclass]_vars

TypeOK ==
  /\ now \in 0..MaxTime
  /\ maxRequests \in 1..MaxN + 1
  /\ windowMs \in 1..MaxW + 1
  /\ DOMAIN requests \subseteq Keys
  /\ DOMAIN securityRequests \subseteq Keys
  /\ resets \in 0..MaxResets + 1

\* ------------------------------------------------------------ properties
\* the number of entries of an array equal to t
CountAt(timestamps, t) == Len(SelectSeq(timestamps, LAMBDA time : time = t))

\* s is what is left of t after some entries were removed from its front
IsSuffix(s, t) == \E i \in 0..Len(t) : s = SubSeq(t, i + 1, Len(t))

AllNewerThan(timestamps, t) ==
  \A i \in 1..Len(timestamps) : timestamps[i] > t

\* C1: sliding window.  For both limiters and every identifier, the number
\* of admitted isAllowed calls whose timestamp lies in the trailing window
\* (now - windowMs, now] never exceeds maxRequests.  It holds in every state,
\* hence at every reading t the clock takes and for every alignment of the
\* window.
C1_WindowNeverExceeded ==
  \A k \in Keys :
    /\ Len(InWindow(admitted[k], now)) <= maxRequests
    /\ Len(InWindow(securityAdmitted[k], now)) <= maxRequests

\* a refused call while the admissions of the window were made at different
\* readings, in both limiters
C1_Witness ==
  /\ last.op = "isAllowed" /\ last.ret = FALSE
  /\ securityLast.op = "isAllowed" /\ securityLast.ret = FALSE
  /\ Len(admitted[last.key]) = maxRequests
  /\ Len(securityAdmitted[last.key]) = maxRequests
  /\ admitted[last.key][1] < now
  /\ securityAdmitted[last.key][1] < now

\* C2: after maxRequests admissions of a key at the present clock reading,
\* one more isAllowed call for the key at that reading returns false.
C2_NextCallRefused ==
  [][\A key \in Keys :
       (IsAllowed(key) /\ CountAt(admitted[key], now) >= maxRequests)
         => last'.ret = FALSE]_vars

C2_Witness ==
  /\ last.op = "isAllowed"
  /\ last.ret = FALSE
  /\ CountAt(admitted[last.key], now) = maxRequests

\* C3: after isAllowed(key) at reading now only timestamps strictly greater
\* than now - windowMs remain in the array of the key (a timestamp equal to
\* now - windowMs is dropped), so a call is refused only when maxRequests
\* admissions lie in (now - windowMs, now].
C3_BoundaryTimestampDropped ==
  last.op = "isAllowed" =>
    /\ AllNewerThan(requests[last.key], now - windowMs)
    /\ (last.ret = FALSE => Len(InWindow(admitted[last.key], now)) >= maxRequests)

\* C4: when the array of a key holds maxRequests admissions, the oldest at
\* t0, an isAllowed call for the key at a reading later than t0 + windowMs
\* returns true.
C4_WindowReopens ==
  (/\ last.op = "isAllowed"
   /\ Len(last.before) = maxRequests
   /\ now > last.before[1] + windowMs) => last.ret = TRUE

C4_Witness ==
  /\ last.op = "isAllowed"
  /\ Len(last.before) = maxRequests
  /\ now > last.before[1] + windowMs
  /\ last.ret = TRUE

\* C5: a refused isAllowed call records nothing, in both limiters: the array
\* after the call is what was left of the array before it, nothing appended;
\* and the stored timestamps of the trailing window are at all times exactly
\* the admissions of that window, so refused calls take no quota.
C5_RefusedNotRecorded ==
  /\ (last.op = "isAllowed" /\ last.ret = FALSE)
       => IsSuffix(requests[last.key], last.before)
  /\ (securityLast.op = "isAllowed" /\ securityLast.ret = FALSE)
       => IsSuffix(securityRequests[securityLast.key], securityLast.before)
  /\ \A k \in Keys :
       /\ InWindow(Before(requests, k), now) = admitted[k]
       /\ InWindow(Before(securityRequests, k), now) = securityAdmitted[k]

\* a refused call on a full window, repeated
C5_Witness ==
  /\ last.op = "isAllowed" /\ last.ret = FALSE
  /\ securityLast.op = "isAllowed" /\ securityLast.ret = FALSE
  /\ Len(last.before) = maxRequests
  /\ Len(securityLast.before) = maxRequests

\* C6: right after isAllowed or getRemainingRequests on a key, every timestamp
\* stored for the key is strictly greater than now - windowMs.
C6_NoStaleTimestampStored ==
  (last.op \in {"isAllowed", "getRemainingRequests"} /\ MapHas(requests, last.key))
    => AllNewerThan(requests[last.key], now - windowMs)

\* C7: getRemainingRequests(key) returns max(0, maxRequests - k), k the number
\* of admissions of the key with a timestamp strictly greater than
\* now - windowMs, and maxRequests for a key the limiter never saw.
C7_RemainingCount ==
  last.op = "getRemainingRequests" =>
    /\ last.ret = Max(0, maxRequests - Len(InWindow(admitted[last.key], now)))
    /\ (~MapHas(requests, last.key) => last.ret = maxRequests)

\* a count taken while the array still holds timestamps that left the window
C7_Witness ==
  /\ last.op = "getRemainingRequests"
  /\ Len(last.before) > Len(admitted[last.key])
  /\ Len(admitted[last.key]) > 0
  /\ last.ret = maxRequests - Len(admitted[last.key])

\* C8: at every reading and in every state, getRemainingRequests(key) is
\* greater than 0 exactly when isAllowed(key) at that reading would return
\* true.
C8_RemainingAgreesWithIsAllowed ==
  \A key \in Keys :
    (getRemainingRequests(requests, key, now) > 0) <=> IsAllowedReturn(requests, key, now)

\* C9: getRemainingRequests leaves the whole Map as it is: no entry created,
\* nothing appended, no trim stored.
C9_RemainingNonMutating ==
  [][\A key \in Keys : GetRemainingRequests(key) => requests' = requests]_vars

\* a count for an unknown key, and one that skipped an expired timestamp
C9_Witness ==
  /\ last.op = "getRemainingRequests"
  /\ MapHas(requests, last.key)
  /\ Len(ValidRequests(requests[last.key], WindowStart(now))) < Len(requests[last.key])
  /\ \E k \in Keys : ~MapHas(requests, k)

\* C10: reset(identifier) removes the entry of the identifier; the isAllowed
\* call that follows it at the same reading returns true; reset of an unknown
\* identifier leaves the Map unchanged.
C10_ResetClears ==
  [][\A identifier \in Keys :
       /\ Reset(identifier) =>
            /\ ~MapHas(securityRequests', identifier)
            /\ (~MapHas(securityRequests, identifier)
                  => securityRequests' = securityRequests)
       /\ (/\ SecurityIsAllowed(identifier)
           /\ securityLast.op = "reset"
           /\ securityLast.key = identifier) => securityLast'.ret = TRUE]_vars

\* an admission beyond the quota of one reading, after a reset of a full window
C10_Witness ==
  /\ securityLast.op = "isAllowed"
  /\ securityLast.ret = TRUE
  /\ CountAt(securityAdmitted[securityLast.key], now) = maxRequests + 1

\* ------------------------------------------------- properties, SimpleCache
\* the key of the call is absent from both Maps
Absent(key) == ~MapHas(cache, key) /\ ~MapHas(ttls, key)

\* C11 as stated: get(key) at a reading now with expiresAt <= now returns
\* undefined and deletes the entry; no read returns a value whose expiry is
\* at or before now.
C11_NoValueAtOrAfterExpiry ==
  (/\ cacheLast.op = "get"
   /\ MapHas(written, cacheLast.key)
   /\ written[cacheLast.key].expires <= now)
    => (cacheLast.ret = Undefined /\ Absent(cacheLast.key))

\* C11, amended: get(key) at a reading now with expiresAt < now returns
\* undefined and deletes the entry; no read returns a value whose expiry is
\* before now.
C11_NoValueAfterExpiry ==
  (/\ cacheLast.op = "get"
   /\ MapHas(written, cacheLast.key)
   /\ written[cacheLast.key].expires < now)
    => (cacheLast.ret = Undefined /\ Absent(cacheLast.key))

\* a get that found an expired entry of a defined value and removed it
C11_Witness ==
  /\ cacheLast.op = "get"
  /\ cacheLast.key \in cacheLast.before
  /\ MapHas(written, cacheLast.key)
  /\ written[cacheLast.key].expires < now
  /\ written[cacheLast.key].value /= Undefined
  /\ cacheLast.ret = Undefined
  /\ Absent(cacheLast.key)

\* C12: a read evicts exactly when now > expiresAt.  A get that finds the key
\* leaves it absent if and only if now is greater than the expiry of its last
\* set, and returns the stored value otherwise; so an entry set with ttl 0 at
\* reading t is returned at t and is gone at any later reading.
C12_EvictsIffPastExpiry ==
  (/\ cacheLast.op = "get"
   /\ cacheLast.key \in cacheLast.before
   /\ MapHas(written, cacheLast.key))
    => /\ Absent(cacheLast.key) <=> now > written[cacheLast.key].expires
       /\ now <= written[cacheLast.key].expires
            => cacheLast.ret = written[cacheLast.key].value
       /\ now > written[cacheLast.key].expires => cacheLast.ret = Undefined

\* a value read at its expiry, at the first reading of the clock: it was set
\* at that reading, with ttl 0
C12_Witness ==
  /\ cacheLast.op = "get"
  /\ MapHas(written, cacheLast.key)
  /\ written[cacheLast.key].expires = now
  /\ now = 1
  /\ written[cacheLast.key].value /= Undefined
  /\ cacheLast.ret = written[cacheLast.key].value
  /\ MapHas(ttls, cacheLast.key)

\* C13: after set(key, value, ttl) at reading t, with no set, delete or clear
\* of the key since, every get(key) at a reading before t + ttl returns the
\* value stored (ttl being defaultTtl when left out).
C13_ValueBeforeExpiry ==
  (/\ cacheLast.op = "get"
   /\ MapHas(written, cacheLast.key)
   /\ now < written[cacheLast.key].expires)
    => cacheLast.ret = written[cacheLast.key].value

C13_Witness ==
  /\ cacheLast.op = "get"
  /\ MapHas(written, cacheLast.key)
  /\ now < written[cacheLast.key].expires
  /\ cacheLast.ret = written[cacheLast.key].value
  /\ cacheLast.ret /= Undefined

\* C14: after set(key, value, ttl) at t and no later set of the key, a get(key)
\* at a reading greater than t + ttl returns undefined, and after it the key
\* is absent: a get or has that follows reports it absent and size does not
\* count it.
C14_GoneAfterExpiry ==
  (/\ cacheLast.op = "get"
   /\ MapHas(written, cacheLast.key)
   /\ now > written[cacheLast.key].expires)
    => /\ cacheLast.ret = Undefined
       /\ Absent(cacheLast.key)
       /\ GetReturn(cache, ttls, cacheLast.key, now) = Undefined
       /\ ~HasReturn(cache, ttls, cacheLast.key, now)
       /\ cacheLast.key \notin DOMAIN SizeCache(cache, ttls, now)
       /\ SizeReturn(cache, ttls, now) <= Cardinality(Keys \ {cacheLast.key})

\* the get that removed the expired entry, another key being counted by size
C14_Witness ==
  /\ cacheLast.op = "get"
  /\ cacheLast.key \in cacheLast.before
  /\ MapHas(written, cacheLast.key)
  /\ now > written[cacheLast.key].expires
  /\ cacheLast.ret = Undefined
  /\ SizeReturn(cache, ttls, now) = 1

\* C15: set on an existing key replaces the value and the expiry.  Right after
\* set the Maps hold the new value and the expiry now + ttl; a get returns the
\* value of the last set at every reading up to that expiry, whatever the
\* expiry of the entry replaced, and never the value replaced.
C15_OverwriteReplaces ==
  /\ cacheLast.op = "set" =>
       /\ MapHas(cache, cacheLast.key) /\ MapHas(ttls, cacheLast.key)
       /\ cache[cacheLast.key] = written[cacheLast.key].value
       /\ ttls[cacheLast.key] = written[cacheLast.key].expires
  /\ (cacheLast.op = "get" /\ MapHas(written, cacheLast.key)) =>
       /\ cacheLast.ret \in {written[cacheLast.key].value, Undefined}
       /\ now <= written[cacheLast.key].expires
            => cacheLast.ret = written[cacheLast.key].value

\* the new value read after a set that replaced another value whose expiry had
\* passed already
C15_Witness ==
  /\ cacheLast.op = "get"
  /\ MapHas(written, cacheLast.key)
  /\ written[cacheLast.key].over
  /\ now <= written[cacheLast.key].expires
  /\ cacheLast.ret = written[cacheLast.key].value
  /\ cacheLast.ret /= Undefined

\* C16: has applies the freshness test of get.  It returns true only for an
\* entry whose expiry has not passed, and a has that finds an expired entry
\* returns false and removes the entry from both Maps.
C16_HasAppliesFreshness ==
  cacheLast.op = "has" =>
    /\ cacheLast.ret = TRUE =>
         /\ MapHas(written, cacheLast.key)
         /\ now <= written[cacheLast.key].expires
         /\ MapHas(ttls, cacheLast.key)
    /\ (MapHas(written, cacheLast.key) /\ now > written[cacheLast.key].expires) =>
         /\ cacheLast.ret = FALSE
         /\ Absent(cacheLast.key)

C16_Witness ==
  /\ cacheLast.op = "has"
  /\ cacheLast.key \in cacheLast.before
  /\ MapHas(written, cacheLast.key)
  /\ now > written[cacheLast.key].expires
  /\ cacheLast.ret = FALSE
  /\ Absent(cacheLast.key)

\* the keys whose last set has an expiry at or after t
Unexpired(t) == {k \in DOMAIN written : written[k].expires >= t}

\* C17: after size() no entry with an expiry before now is stored, and the
\* number returned is the number of entries with an expiry at or after now.
C17_SizeSweeps ==
  cacheLast.op = "size" =>
    /\ \A k \in DOMAIN ttls : ttls[k] >= now
    /\ DOMAIN cache = Unexpired(now)
    /\ DOMAIN ttls = Unexpired(now)
    /\ cacheLast.ret = Cardinality(Unexpired(now))

\* a size that swept an expired entry and counted a live one
C17_Witness ==
  /\ cacheLast.op = "size"
  /\ cacheLast.ret = 1
  /\ Cardinality(cacheLast.before) = 2

\* C18: delete(key) leaves the key absent, expired or not, changes nothing when
\* the key is absent, and a second delete changes nothing more; clear() leaves
\* both Maps empty; size() after either on an empty cache returns 0.
C18_DeleteClearIdempotent ==
  [][/\ cacheLast'.op = "delete" =>
          /\ ~MapHas(cache', cacheLast'.key) /\ ~MapHas(ttls', cacheLast'.key)
          /\ cacheLast'.key \notin Stored(cache, ttls)
               => (cache' = cache /\ ttls' = ttls)
          /\ DeleteCache(cache', cacheLast'.key) = cache'
          /\ DeleteTtls(ttls', cacheLast'.key) = ttls'
     /\ cacheLast'.op = "clear" => (cache' = EmptyMap /\ ttls' = EmptyMap)
     /\ (/\ cacheLast'.op = "size"
         /\ cacheLast.op \in {"delete", "clear"}
         /\ cacheLast.before = {}) => cacheLast'.ret = 0]_vars

\* size() returning 0 after the delete of a key the empty cache did not hold,
\* and the delete of an entry whose expiry had passed
C18_Witness ==
  \/ /\ cacheLast.op = "delete"
     /\ cacheLast.before = {}
     /\ Stored(cache, ttls) = {}
     /\ SizeReturn(cache, ttls, now) = 0
  \/ /\ cacheLast.op = "delete"
     /\ cacheLast.key \in cacheLast.before
     /\ Absent(cacheLast.key)

\* C19: a read does not change the expiry.  The expiry stored for a key is at
\* all times the one its last set gave it, and a get or has that finds an
\* entry whose expiry has not passed leaves it stored.
C19_ReadKeepsExpiry ==
  /\ \A k \in DOMAIN ttls :
       MapHas(written, k) /\ ttls[k] = written[k].expires
  /\ (/\ cacheLast.op \in {"get", "has"}
      /\ cacheLast.key \in cacheLast.before
      /\ MapHas(written, cacheLast.key)
      /\ now <= written[cacheLast.key].expires) => MapHas(ttls, cacheLast.key)

\* a read that returned the entry, at a reading where a renewal would have
\* given another expiry
C19_Witness ==
  /\ cacheLast.op \in {"get", "has"}
  /\ MapHas(ttls, cacheLast.key)
  /\ MapHas(cache, cacheLast.key)
  /\ cache[cacheLast.key] /= Undefined
  /\ ttls[cacheLast.key] /= now + defaultTtl

\* what the two Maps hold for a key
Entry(c, tt, j) ==
  [inCache |-> MapHas(c, j), value |-> IF MapHas(c, j) THEN c[j] ELSE Undefined,
   inTtls |-> MapHas(tt, j), expires |-> IF MapHas(tt, j) THEN tt[j] ELSE 0]

\* C20: a step in which get(k), has(k), set(k, ...) or delete(k) returns
\* leaves what is stored for every other key as it is, expired entries too;
\* a step in which size() returns removes expired entries only.
C20_OtherKeysUntouched ==
  [][/\ cacheLast'.op \in {"get", "has", "set", "delete"} =>
          \A j \in Keys \ {cacheLast'.key} :
            Entry(cache', ttls', j) = Entry(cache, ttls, j)
     /\ cacheLast'.op = "size" =>
          \A j \in Keys :
            (MapHas(ttls, j) /\ ttls[j] >= now)
              => Entry(cache', ttls', j) = Entry(cache, ttls, j)]_vars

\* a call on one key made while another key holds an expired entry, which
\* stays stored
C20_Witness ==
  /\ cacheLast.op \in {"get", "has", "set", "delete"}
  /\ \E j \in Keys \ {cacheLast.key} :
       /\ MapHas(cache, j) /\ MapHas(ttls, j)
       /\ ttls[j] < now
       /\ j \in cacheLast.before

\* --------------------------------------------- properties, PluginInterface

\* C21: in every reachable state a running plugin is initialized.
C21_RunningImpliesInitialized == isRunning => isInitialized

\* C22: start() on a plugin that is not initialized returns false and leaves
\* _isRunning and startTime (and the rest of the state) as they were.
C22_StartUninitialized ==
  [][(Start /\ ~isInitialized) =>
       /\ pluginLast'.ret = FALSE
       /\ isRunning' = isRunning
       /\ startTime' = startTime
       /\ UNCHANGED <<isInitialized, context, config, jobQueue, taskRunner>>]_vars

\* start() has returned false on a plugin that is not initialized, not running
\* and without startTime
C22_Witness ==
  /\ pluginLast.op = "start"
  /\ pluginLast.ret = FALSE
  /\ ~isInitialized
  /\ ~isRunning
  /\ startTime = NullTime

\* C23: initialize(context) with a context object returns true and leaves
\* isInitialized true, with config the config of the context when it has one
\* and getDefaultConfig() when it has none (undefined or null); a plugin just
\* constructed is not initialized, not running and has uptime 0.
C23_InitializeSetsConfig ==
  /\ (pluginLast.op = "initialize" /\ pluginLast.arg.object) =>
       /\ pluginLast.ret = TRUE
       /\ isInitialized
       /\ context = pluginLast.arg
       /\ pluginLast.arg.config = "config" => config = pluginLast.arg.config
       /\ pluginLast.arg.config \in {Undefined, Null} => config = getDefaultConfig
  /\ pluginLast.op = "constructor" =>
       /\ ~isInitialized
       /\ ~IsRunning
       /\ getUptime = 0

\* a plugin initialized again after a cleanup, first with a config and then,
\* as here, without
C23_Witness ==
  /\ pluginLast.op = "initialize"
  /\ pluginLast.arg.object
  /\ pluginLast.arg.config = Undefined
  /\ config = getDefaultConfig
  /\ isInitialized
  /\ now > 1

\* -------------------------------------------- properties, createHttpClient

\* a failure the claims call retryable: a network error or a 5xx response
Retryable(response) == response = NoResponse \/ response >= 500

AllRetryable(responses) ==
  \A i \in 1..Len(responses) : Retryable(responses[i])

\* what is left of a request: the attempts not yet made, then the attempt that
\* is out, then the looks left at the armed timer
HttpLeft ==
  IF httpPc \notin {"inflight", "waiting"} THEN 0
  ELSE (4 - attempts) * 100 +
       (IF httpPc = "inflight" THEN 50
        ELSE (delay + (MaxLate + 1) * TimerStep - elapsed) \div TimerStep)

\* C24: retrying is bounded and ends.  retryCount never exceeds 3 and no more
\* than 3 retries (4 attempts) are made; every step of a pending request uses
\* up some of what is left of it; the failure of the attempt made after the 3rd
\* retry is rejected, and a request whose failures were all network errors or
\* 5xx responses is rejected only then.
C24_RetryBounded ==
  [][/\ retryCount' <= 3
     /\ attempts' <= 4
     /\ Len(delays') <= 3
     /\ httpPc \in {"inflight", "waiting"} =>
          (HttpLeft' < HttpLeft /\ HttpLeft' >= 0)
     /\ (httpPc = "inflight" /\ attempts = 4 /\ httpPc' /= "resolved") =>
          httpPc' = "rejected"
     /\ (httpPc' = "rejected" /\ AllRetryable(failures')) =>
          (retryCount' = 3 /\ attempts' = 4 /\ Len(failures') = 4)]_vars

\* a request rejected after its 4 attempts failed with network errors or 5xx
C24_Witness ==
  /\ httpPc = "rejected"
  /\ AllRetryable(failures)
  /\ Len(failures) = 4
  /\ Len(delays) = 3
  /\ retryCount = 3

\* C25: a failure with a response of status below 500 is rejected at once,
\* whatever retryCount is: no retry is counted, no timer armed, no attempt
\* issued.
C25_NoRetryBelow500 ==
  [][\A response \in Statuses :
       (HttpError(response) /\ response < 500) =>
         /\ httpPc' = "rejected"
         /\ retryCount' = RetryCountSet(retryCount)
         /\ attempts' = attempts
         /\ delay' = delay /\ elapsed' = elapsed
         /\ delays' = delays]_vars

\* a 4xx rejected after two retries
C25_Witness ==
  /\ httpPc = "rejected"
  /\ retryCount = 2
  /\ attempts = 3
  /\ Len(failures) = 3
  /\ failures[3] \in 400..499

\* the wait before retry number attempt, in ms
BackoffMs(attempt) ==
  IF attempt = 1 THEN 2000 ELSE IF attempt = 2 THEN 4000 ELSE 8000

\* C26: the timer armed before retry number n (from 1) is of 2^n * 1000 ms:
\* 2000, 4000, 8000; a retry is issued only when that many ms have gone by;
\* each delay is twice the one before.
C26_ExponentialBackoff ==
  /\ httpPc = "waiting" => (attempts \in 1..3 /\ delay = BackoffMs(attempts))
  /\ \A i \in 1..Len(delays) :
       /\ delays[i] = BackoffMs(i)
       /\ waits[i] >= delays[i]
  /\ \A i \in 1..Len(delays) - 1 : delays[i + 1] = 2 * delays[i]

\* the three retries made, the last one issued later than its delay
C26_Witness ==
  /\ delays = <<2000, 4000, 8000>>
  /\ Len(waits) = 3
  /\ waits[3] > 8000

\* ------------------------------------------------ properties, validateXPUB

\* C27: validateXPUB returns valid: true for every string made of an accepted
\* prefix followed only by alphanumeric characters, the key of the test and of
\* the README (50 characters after xpub) among them.
C27_AcceptsPrefixedAlphanumeric ==
  (/\ xpubResult.called
   /\ xpub.type = "string"
   /\ ~xpub.pad
   /\ xpub.prefix \in XpubPrefixes
   /\ xpub.alnum
   /\ xpub.body >= 1) => xpubResult.valid

\* ----------------------------------------- properties, the two limiters

\* C28: given the same policy and the same isAllowed calls at the same
\* readings, the two limiters return the same boolean on every call.
C28_LimitersAgree ==
  (last.op = "isAllowed" /\ securityLast.op = "isAllowed"
     /\ last.key = securityLast.key)
    => last.ret = securityLast.ret

\* timestamps in non-decreasing order, oldest first
Sorted(timestamps) ==
  \A i \in 1..Len(timestamps) - 1 : timestamps[i] <= timestamps[i + 1]

\* C29: for every identifier the stored timestamps are in non-decreasing
\* order after any isAllowed and getRemainingRequests calls (the class has no
\* reset); and after isAllowed no stored timestamp of the key is older than
\* the window start, though the trim only looks at the front.
C29_TimestampsSorted ==
  /\ \A k \in DOMAIN requests : Sorted(requests[k])
  /\ last.op = "isAllowed" =>
       \A i \in 1..Len(requests[last.key]) :
         requests[last.key][i] >= WindowStart(now)

\* an isAllowed that trimmed the front of an array of two timestamps and
\* pushed a third
C29_Witness ==
  /\ last.op = "isAllowed"
  /\ Len(last.before) = 2
  /\ last.before[1] < WindowStart(now)
  /\ last.before[1] < last.before[2]
  /\ Len(requests[last.key]) = 2
  /\ requests[last.key][1] < requests[last.key][2]

\* C30: identifiers are independent.  A call on one identifier leaves the
\* array of every other identifier as it is, in both limiters, and with it
\* what isAllowed returns for that other identifier.
C30_IdentifiersIndependent ==
  [][/\ last'.op \in {"isAllowed", "getRemainingRequests"} =>
          \A b \in Keys \ {last'.key} :
            /\ MapHas(requests', b) = MapHas(requests, b)
            /\ Before(requests', b) = Before(requests, b)
            /\ now' = now =>
                 IsAllowedReturn(requests', b, now) = IsAllowedReturn(requests, b, now)
     /\ securityLast'.op \in {"isAllowed", "reset"} =>
          \A b \in Keys \ {securityLast'.key} :
            /\ MapHas(securityRequests', b) = MapHas(securityRequests, b)
            /\ Before(securityRequests', b) = Before(securityRequests, b)
            /\ now' = now =>
                 SecurityIsAllowedReturn(securityRequests', b, now)
                   = SecurityIsAllowedReturn(securityRequests, b, now)]_vars

\* a reset of one identifier while the other has used up its limit
C30_Witness ==
  /\ securityLast.op = "reset"
  /\ Len(securityLast.before) >= 1
  /\ \E b \in Keys \ {securityLast.key} :
       /\ MapHas(securityRequests, b)
       /\ ~SecurityIsAllowedReturn(securityRequests, b, now)
       /\ MapHas(requests, b)
       /\ ~IsAllowedReturn(requests, b, now)

\* ------------------------------------- properties, SimpleCache's two Maps

\* C31: after any set, get, has, delete, clear and size calls the value Map
\* and the expiry Map hold the same keys.
C31_MapsInStep == DOMAIN cache = DOMAIN ttls

\* a delete that took one of two stored keys out of both Maps
C31_Witness ==
  /\ cacheLast.op = "delete"
  /\ Cardinality(cacheLast.before) = 2
  /\ Cardinality(DOMAIN cache) = 1
  /\ DOMAIN ttls = DOMAIN cache

\* C32: has(key) returns true for every key that holds an unexpired entry,
\* whatever its value, undefined too; so the number size() returns is the
\* number of keys has() returns true for.
C32_HasAgreesWithSize ==
  /\ (/\ cacheLast.op = "has"
      /\ MapHas(written, cacheLast.key)
      /\ now <= written[cacheLast.key].expires) => cacheLast.ret = TRUE
  /\ cacheLast.op = "size" =>
       cacheLast.ret = Cardinality({k \in Keys : HasReturn(cache, ttls, k, now)})

\* ------------------------------------------- properties, the two subclasses
\* a step in which a call of start() runs and returns
StartReturns == pluginLast'.op = "start" /\ UNCHANGED <<licensing, stops>>

\* C33: for a PrivatePluginInterface plugin with price > 0 outside development
\* mode, initialize(context) with a missing or an invalid license key returns
\* false and leaves the plugin as it was: isInitialized stays false,
\* licenseStatus stays 'unlicensed', and the initializePlugin hook is not
\* called.
C33_UnlicensedInitializeFails ==
  [][(/\ kind = "private"
      /\ price > 0
      /\ ~devMode
      /\ Len(licensing') < Len(licensing)
      /\ \/ NoLicenseKey(pluginLast'.arg.licenseKey)
         \/ subclassLast'.server /= "valid")
     => /\ pluginLast'.op = "initialize"
        /\ pluginLast'.ret = FALSE
        /\ subclassLast'.hook = "none"
        /\ UNCHANGED <<isInitialized, licenseStatus, context, config>>]_vars

C33_Witness ==
  /\ kind = "private"
  /\ price > 0
  /\ ~devMode
  /\ pluginLast.op = "initialize"
  /\ pluginLast.arg.licenseKey = "LICENSE-KEY"
  /\ subclassLast.server = "invalid"
  /\ subclassLast.first
  /\ pluginLast.ret = FALSE
  /\ isInitialized = FALSE
  /\ licenseStatus = "unlicensed"

\* C34: for a PrivatePluginInterface plugin whose price is a constant above
\* 0, in every reachable state a running plugin is licensed, and start() on an
\* unlicensed plugin returns false without calling startPlugin.
C34_RunningImpliesLicensed ==
  (kind = "private" /\ price > 0) =>
    /\ isRunning => licenseStatus = "licensed"
    /\ (pluginLast.op = "start" /\ licenseStatus /= "licensed") =>
         /\ pluginLast.ret = FALSE
         /\ subclassLast.hook = "none"

C34_Witness ==
  /\ kind = "private"
  /\ price > 0
  /\ ~devMode
  /\ isRunning
  /\ licenseStatus = "licensed"
  /\ pluginLast.op = "initialize"
  /\ pluginLast.ret = FALSE
  /\ subclassLast.server = "invalid"

\* C35: for the two subclasses, when initialize(context) on a freshly
\* constructed plugin returns false, also when the initializePlugin hook
\* throws, the plugin is left uninitialized, and a start() that follows returns
\* false and does not leave the plugin running.
C35_FailedInitializeUninitialized ==
  [][/\ (/\ pluginLast.op = "constructor"
         /\ pluginLast'.op = "initialize"
         /\ pluginLast'.ret = FALSE) => isInitialized' = FALSE
     /\ (/\ pluginLast.op = "initialize"
         /\ pluginLast.ret = FALSE
         /\ subclassLast.first
         /\ StartReturns) => (pluginLast'.ret = FALSE /\ isRunning' = FALSE)]_vars

\* C36: for the two subclasses, when start() returns false on a plugin that
\* was not running, also when the startPlugin hook throws, the plugin is not
\* running afterwards: _isRunning is false, startTime is null and the uptime
\* is 0.
C36_FailedStartNotRunning ==
  [][(/\ StartReturns
      /\ pluginLast'.ret = FALSE
      /\ isRunning = FALSE)
     => /\ isRunning' = FALSE
        /\ startTime' = NullTime
        /\ getUptime' = 0]_vars

\* C37: for the two subclasses, after cleanup() returns the plugin is neither
\* running nor initialized (_isRunning false, startTime null, isInitialized
\* false, context and config null), also when the stopPlugin hook throws; so
\* in every reachable state a running plugin is initialized.
C37_CleanupLeavesStopped ==
  /\ [](isRunning => isInitialized)
  /\ [][(pluginLast'.op = "cleanup" /\ cleanups' < cleanups)
        => /\ isRunning' = FALSE
           /\ startTime' = NullTime
           /\ isInitialized' = FALSE
           /\ context' = NullContext
           /\ config' = Null]_vars
====
